---- MODULE Spec2Model ----
(***************************************************************************)
(* The request orchestrator of the construction-process guide: the App     *)
(* component's handleSearch with its cache, history and published React    *)
(* state, driven by the two generators of services/geminiService.          *)
(*                                                                         *)
(* The repository holds two App/service pairs that share this code path:   *)
(*   variant "A"  App of src/unnamed/part_000 (l.339-458) with the         *)
(*                service of src/services/geminiService.ts (l.1-134);      *)
(*   variant "B"  App of src/unnamed/part_001 (l.40-156) with the          *)
(*                service of src/unnamed/part_000 (l.183-295).             *)
(* The variant is fixed at construction.                                   *)
(*                                                                         *)
(* React state is modelled as the state store (the value every queued      *)
(* setState has been applied to); a render commits it and re-creates the   *)
(* memoized handleSearch closure when one of its useCallback dependencies  *)
(* changed.  State updates made in one synchronous block are one step      *)
(* (automatic batching).  Strings are sequences of characters.             *)
(***************************************************************************)
EXTENDS Integers, Sequences, FiniteSets, TLC

\* ------------------------------------------------------------------ bounds
MaxSearches == 2      \* cache-miss searches started over the run
MaxChunks == 2        \* chunks the provider streams within one search

\* ----------------------------------------------------------- input domains
\* Query strings a caller may submit (as character sequences): the empty and a
\* blank one, two spellings of one normalized query ("A" and " a" both
\* normalize to "a"), and another query.
Queries == { <<>>, <<" ">>, <<"A">>, <<" ", "a">>, <<"b">> }

\* handleSearch only concatenates, stores and republishes what the provider
\* sends, and tests it for emptiness alone; so every chunk, source list and
\* image payload is a value of its own, which is the case that tells any two
\* of them apart.  Texts are sequences of such chunk tokens.
\* The i-th chunk of the stream of invocation s: its text, or no text.
ChunkTexts(s, i) == { <<10 * s + i>>, <<>> }

\* The source list fetchConstructionProcess resolves with for invocation s.
SourcesOf(s) == <<s>>

\* The image payload the provider answers invocation s with.
ImageBytesOf(s) == s

NoUrl == 0            \* imageUrl === null
NULL == "null"        \* error === null / imageError === null
NoResult == <<>>      \* searchResult === null; <<r>> is a present result

\* Rejection reasons the generators produce: Error objects (name, message).
NetworkError == [name |-> "NetworkError", message |-> "Error de red."]
InvalidQueryError == [name |-> "InvalidQueryError", message |-> "La consulta es invalida."]
PlainTextError == [name |-> "Error", message |-> "No se pudo generar el texto."]
PlainImageError == [name |-> "Error", message |-> "No se pudo generar la imagen."]

\* What each pair's service rejects with: the typed errors of handleApiError
\* in variant A, the plain `new Error(...)` of part_000's service in variant B.
TextReasons(v) == IF v = "A" THEN { InvalidQueryError } ELSE { PlainTextError }
ImageReasons(v) == IF v = "A" THEN { NetworkError } ELSE { PlainImageError }

\* What a generator other than the service's may reject with: an Error object,
\* an object whose name does not end in "Error", and a value that has no
\* `name` at all (a string, undefined).
NoName == "<undefined>"
AbortReason == [name |-> "Abort", message |-> "aborted"]
NamelessReason == [name |-> NoName, message |-> ""]
AnyTextReasons == { PlainTextError, NamelessReason }
AnyImageReasons == { AbortReason, NamelessReason }

\* The message of the TypeError that `reason.name.endsWith` throws when
\* reason.name is undefined.
EndsWithTypeErrorMsg == "Cannot read properties of undefined (reading 'endsWith')"

DefaultImageMsg == "No se pudo generar la ilustracion para este proceso."
DefaultTextMsg == "Ocurrio un error al obtener los detalles del proceso."

\* ------------------------------------------------------------ string helpers
\* String.prototype.toLowerCase, per character.
LowerChar(c) == CASE c = "A" -> "a" [] c = "B" -> "b" [] c = "C" -> "c" [] OTHER -> c

ToLowerCase(s) == [i \in 1..Len(s) |-> LowerChar(s[i])]

RECURSIVE TrimStart(_)
TrimStart(s) == IF s # <<>> /\ Head(s) = " " THEN TrimStart(Tail(s)) ELSE s

RECURSIVE TrimEnd(_)
TrimEnd(s) ==
  IF s # <<>> /\ s[Len(s)] = " " THEN TrimEnd(SubSeq(s, 1, Len(s) - 1)) ELSE s

\* String.prototype.trim
Trim(s) == TrimEnd(TrimStart(s))

\* Mutant: the cache key is lowercased but not trimmed.
Normalize_NoTrim(q) == ToLowerCase(q)

\* searchQuery.trim().toLowerCase()
Normalize(q) == ToLowerCase(Trim(q))

\* name.endsWith('Error') for the names an Error object can carry here.
EndsWithError(name) == name \in { "Error", "ApiError", "NetworkError", "InvalidQueryError",
                                  "ServiceUnavailableError", "NoApiKeyError", "TypeError" }

\* Array.prototype.slice(0, n)
Slice0(s, n) == SubSeq(s, 1, IF Len(s) < n THEN Len(s) ELSE n)

\* ---------------------------------------------------------------- the state
VARIABLES
  variant,          \* which App/service pair runs: "A" or "B"
  searchHistory,    \* useState<string[]>([])
  searchResult,     \* useState<SearchResult | null>(null)
  imageUrl,         \* useState<string | null>(null)
  isLoading,        \* useState(false): text loading
  isImageLoading,   \* useState(false)
  error,            \* useState<string | null>(null): text error
  imageError,       \* useState<string | null>(null)
  isSearching,      \* useState(false): the in-flight flag
  cache,            \* useRef(new Map()): normalized query -> {result, imageUrl}
  hs,               \* what the memoized handleSearch closure captured at its render
  searches,         \* the cache-miss invocations of handleSearch, in call order
  nextUrl,          \* URL.createObjectURL: the next fresh object URL
  revoked,          \* object URLs passed to URL.revokeObjectURL
  lastOp,           \* the last handleSearch event (call, chunk or finish)
  svc               \* one call of a generator of the service, taken on its own

published == <<searchHistory, searchResult, imageUrl, isLoading, isImageLoading,
               error, imageError, isSearching>>

vars == <<variant, searchHistory, searchResult, imageUrl, isLoading, isImageLoading,
          error, imageError, isSearching, cache, hs, searches, nextUrl, revoked, lastOp,
          svc>>

NoReason == [name |-> "", message |-> ""]

\* The record of handleSearch invocation: its locals and generator outcomes.
NoSearch ==
  [ q |-> <<>>, norm |-> <<>>, fullText |-> <<>>, streamed |-> <<>>, nchunks |-> 0,
    txt |-> "none", sources |-> <<>>, txtReason |-> NoReason,
    img |-> "none", imgBytes |-> 0, imgReason |-> NoReason,
    cIsLoading |-> FALSE, cImageUrl |-> NoUrl, done |-> FALSE ]

\* kind of event, submitted query, invocation, chunk index, and (for a finish)
\* the invocation's locals as they were when it returned.
Op(kind, q, sid, k, r) == [kind |-> kind, q |-> q, sid |-> sid, k |-> k, r |-> r]

\* new Map()
EmptyCache == [k \in {} |-> k]

AppInit ==
  /\ variant \in {"A", "B"}
  /\ searchHistory = <<>>
  /\ searchResult = NoResult
  /\ imageUrl = NoUrl
  /\ isLoading = FALSE
  /\ isImageLoading = FALSE
  /\ error = NULL
  /\ imageError = NULL
  /\ isSearching = FALSE
  /\ cache = EmptyCache
  /\ hs = [isSearching |-> FALSE, isLoading |-> FALSE, imageUrl |-> NoUrl]
  /\ searches = <<>>
  /\ nextUrl = 1
  /\ revoked = {}
  /\ lastOp = Op("none", <<>>, 0, 0, NoSearch)

\* No generator call is under way on its own.
NoCall == [status |-> "idle"]

Init == AppInit /\ svc = NoCall

\* ------------------------------------------------------------ pure helpers
HistoryCap == 3

\* Mutant: the history is not cut back with slice(0, 3).
UpdateHistory_NoSlice(prev, searchQuery, normalizedQuery) ==
  <<searchQuery>> \o SelectSeq(prev, LAMBDA h : ToLowerCase(h) # normalizedQuery)

\* [searchQuery, ...prev.filter(q => q.toLowerCase() !== normalizedQuery)].slice(0, 3)
UpdateHistory(prev, searchQuery, normalizedQuery) ==
  Slice0(<<searchQuery>> \o SelectSeq(prev, LAMBDA h : ToLowerCase(h) # normalizedQuery),
         HistoryCap)

\* Map.prototype.set / delete / has on the cache
CacheHas(c, key) == key \in DOMAIN c
CacheSet(c, key, entry) == [k \in (DOMAIN c) \cup {key} |-> IF k = key THEN entry ELSE c[k]]
CacheDelete(c, key) == [k \in (DOMAIN c) \ {key} |-> c[k]]

\* reason.name.endsWith('Error') ? reason.message : <default>
ErrorMessage(reason, default) ==
  IF EndsWithError(reason.name) THEN reason.message ELSE default

\* `data:image/jpeg;base64,${base64ImageBytes}` (variant A's generateProcessImage)
DataUrl(bytes) == 100 + bytes

\* --------------------------------------------------------- handleSearch: calls
\* A fresh cache-miss invocation: its locals and what its closure captured.
NewSearch(q) ==
  [ NoSearch EXCEPT
      !.q = q, !.norm = Normalize(q),
      !.txt = "pending", !.img = "pending",
      !.cIsLoading = hs.isLoading,  \* `isLoading` as onTextStream's closure sees it
      !.cImageUrl = hs.imageUrl ]   \* `imageUrl` as the closure sees it (variant B)

\* What is kept of an invocation that has returned: its query and outcomes.
Returned(r) ==
  [ NoSearch EXCEPT !.q = r.q, !.norm = r.norm, !.txt = r.txt, !.img = r.img,
                    !.done = TRUE ]

\* if (isSearching) return;
HandleSearchIgnored(q) ==
  /\ hs.isSearching
  /\ lastOp' = Op("ignored", <<>>, 0, 0, NoSearch)
  /\ UNCHANGED <<svc, variant, published, cache, hs, searches, nextUrl, revoked>>

\* Mutant: a blank query clears the published errors before returning.
HandleSearchBlank_ClearsErrors(q) ==
  /\ ~hs.isSearching
  /\ Normalize(q) = <<>>
  /\ error' = NULL
  /\ imageError' = NULL
  /\ lastOp' = Op("blank", <<>>, 0, 0, NoSearch)
  /\ UNCHANGED <<svc, variant, searchHistory, searchResult, imageUrl, isLoading,
                 isImageLoading, isSearching, cache, hs, searches, nextUrl, revoked>>

\* if (!normalizedQuery) return;
HandleSearchBlank(q) ==
  /\ ~hs.isSearching
  /\ Normalize(q) = <<>>
  /\ lastOp' = Op("blank", <<>>, 0, 0, NoSearch)
  /\ UNCHANGED <<svc, variant, published, cache, hs, searches, nextUrl, revoked>>

\* if (cache.current.has(normalizedQuery)) { ...publish the entry...; return; }
HandleSearchHit(q) ==
  LET normalizedQuery == Normalize(q) IN
  /\ ~hs.isSearching
  /\ normalizedQuery # <<>>
  /\ CacheHas(cache, normalizedQuery)
  /\ searchResult' = <<cache[normalizedQuery].result>>
  /\ imageUrl' = cache[normalizedQuery].imageUrl
  /\ error' = NULL
  /\ imageError' = NULL
  /\ isLoading' = FALSE
  /\ isImageLoading' = FALSE
  /\ searchHistory' = UpdateHistory(searchHistory, q, normalizedQuery)
  /\ lastOp' = Op("hit", q, 0, 0, NoSearch)
  /\ UNCHANGED <<svc, variant, isSearching, cache, hs, searches, nextUrl, revoked>>

\* The miss path up to the await: flags set, prior state cleared, both
\* generators started (the two calls of the Promise.allSettled array).
HandleSearchMiss(q) ==
  LET normalizedQuery == Normalize(q) IN
  /\ ~hs.isSearching
  /\ normalizedQuery # <<>>
  /\ ~CacheHas(cache, normalizedQuery)
  /\ Len(searches) < MaxSearches
  /\ isSearching' = TRUE
  /\ isLoading' = TRUE
  /\ isImageLoading' = TRUE
  /\ error' = NULL
  /\ imageError' = NULL
  /\ searchResult' = NoResult
  /\ imageUrl' = NoUrl
  /\ searches' = Append(searches, NewSearch(q))
  /\ lastOp' = Op("miss", <<>>, Len(searches) + 1, 0, NoSearch)
  /\ UNCHANGED <<svc, variant, searchHistory, cache, hs, nextUrl, revoked>>

\* ------------------------------------------------------------ the generators
Running(s) == s \in 1..Len(searches) /\ ~searches[s].done

\* useCallback(..., [isSearching]) in variant A, [isSearching, imageUrl] in B:
\* the next render re-creates handleSearch.
DepsChanged ==
  \/ hs.isSearching # isSearching
  \/ variant = "B" /\ hs.imageUrl # imageUrl

\* A provider response arrives in a later task than the commit React has
\* scheduled for the state updates made before it.
Responds(s) == Running(s) /\ ~DepsChanged

\* const onTextStream = (chunk) => { if (isLoading) setIsLoading(false); ... }
OnTextStreamLoading(r, cur) == IF r.cIsLoading THEN FALSE ELSE cur

\* setSearchResult(prev => ({ text: (prev?.text || '') + chunk, sources: prev?.sources || [] }))
OnTextStreamResult(prev, chunk) ==
  IF prev = NoResult
    THEN << [text |-> chunk, sources |-> <<>>] >>
    ELSE << [text |-> prev[1].text \o chunk, sources |-> prev[1].sources] >>

\* Whether the service hands this chunk to onStream: geminiService.ts calls
\* onStream(chunk.text) for every chunk, part_000's service only `if (textChunk)`.
CallsOnStream(v, chunk) == v = "A" \/ chunk # <<>>

\* for await (const chunk of responseStream) { onStream(...) }: one chunk.
TextChunk(s, i, chunk) ==
  /\ Responds(s)
  /\ searches[s].txt = "pending"
  /\ i = searches[s].nchunks + 1
  /\ IF CallsOnStream(variant, chunk)
       THEN /\ isLoading' = OnTextStreamLoading(searches[s], isLoading)
            /\ searchResult' = OnTextStreamResult(searchResult, chunk)
            /\ searches' = [searches EXCEPT ![s].nchunks = @ + 1,
                                            ![s].fullText = @ \o chunk,
                                            ![s].streamed = Append(@, chunk)]
            /\ lastOp' = Op("chunk", <<>>, s, Len(searches[s].streamed) + 1, NoSearch)
       ELSE /\ searches' = [searches EXCEPT ![s].nchunks = @ + 1]
            /\ UNCHANGED <<isLoading, searchResult, lastOp>>
  /\ UNCHANGED <<svc, variant, searchHistory, imageUrl, isImageLoading, error, imageError,
                 isSearching, cache, hs, nextUrl, revoked>>

\* return { sources }
TextFulfilled(s) ==
  /\ Responds(s)
  /\ searches[s].txt = "pending"
  /\ searches' = [searches EXCEPT ![s].txt = "fulfilled", ![s].sources = SourcesOf(s)]
  /\ UNCHANGED <<svc, variant, published, cache, hs, nextUrl, revoked, lastOp>>

\* catch (error) { handleApiError(error) } / throw new Error(...)
TextRejected(s, reason) ==
  /\ Responds(s)
  /\ searches[s].txt = "pending"
  /\ searches' = [searches EXCEPT ![s].txt = "rejected", ![s].txtReason = reason]
  /\ UNCHANGED <<svc, variant, published, cache, hs, nextUrl, revoked, lastOp>>

\* generateProcessImage resolves with the image
ImageFulfilled(s) ==
  /\ Responds(s)
  /\ searches[s].img = "pending"
  /\ searches' = [searches EXCEPT ![s].img = "fulfilled", ![s].imgBytes = ImageBytesOf(s)]
  /\ UNCHANGED <<svc, variant, published, cache, hs, nextUrl, revoked, lastOp>>

\* generateProcessImage rejects
ImageRejected(s, reason) ==
  /\ Responds(s)
  /\ searches[s].img = "pending"
  /\ searches' = [searches EXCEPT ![s].img = "rejected", ![s].imgReason = reason]
  /\ UNCHANGED <<svc, variant, published, cache, hs, nextUrl, revoked, lastOp>>

\* ------------------------------------------- handleSearch: after the await
\* What the image outcome publishes as URL: variant A publishes the data URL
\* the generator returned, variant B an object URL created for the Blob.
FinalImageUrl(v, r, fresh) ==
  IF r.img # "fulfilled" THEN NoUrl
  ELSE IF v = "A" THEN DataUrl(r.imgBytes) ELSE fresh

\* if (imageUrl) URL.revokeObjectURL(imageUrl)  -- variant B, image fulfilled
Revoke(v, r, rev) ==
  IF v = "B" /\ r.img = "fulfilled" /\ r.cImageUrl # NoUrl THEN rev \cup {r.cImageUrl} ELSE rev

\* The text of the final setSearchResult: `prev?.text || fullText` in
\* variant A, `fullText` in variant B.
FinalText(v, prev, fullText) ==
  IF v = "A" /\ prev # NoResult /\ prev[1].text # <<>> THEN prev[1].text ELSE fullText

\* Mutant: an entry is written whenever the text was fulfilled, image or not.
FinalCache_TextOnly(c, r, url) ==
  IF r.txt = "fulfilled"
    THEN CacheSet(c, r.norm, [result |-> [text |-> r.fullText, sources |-> r.sources],
                              imageUrl |-> url])
    ELSE CacheDelete(c, r.norm)

\* The cache after the text branch and its else: an entry is set only when the
\* text was fulfilled and an image URL was obtained, otherwise the key is deleted.
FinalCache(c, r, url) ==
  IF r.txt = "fulfilled" /\ r.img = "fulfilled" /\ url # NoUrl
    THEN CacheSet(c, r.norm, [result |-> [text |-> r.fullText, sources |-> r.sources],
                              imageUrl |-> url])
    ELSE CacheDelete(c, r.norm)

\* Mutant: a rejected text leaves the partially streamed result published.
FinalResult_KeepPartial(v, prev, r) ==
  IF r.txt = "fulfilled"
    THEN << [text |-> FinalText(v, prev, r.fullText), sources |-> r.sources] >>
    ELSE prev

\* The published result after the text branch: the final text with the final
\* sources when the text was fulfilled, setSearchResult(null) otherwise.
FinalResult(v, prev, r) ==
  IF r.txt = "fulfilled"
    THEN << [text |-> FinalText(v, prev, r.fullText), sources |-> r.sources] >>
    ELSE NoResult

\* setError(null) when the text was fulfilled, setError(<message>) otherwise.
FinalError(r) ==
  IF r.txt = "fulfilled" THEN NULL ELSE ErrorMessage(r.txtReason, DefaultTextMsg)

\* Mutant: the history is updated whatever the text outcome.
FinalHistory_Always(h, r) == UpdateHistory(h, r.q, r.norm)

\* setSearchHistory(...) happens in the fulfilled text branch only.
FinalHistory(h, r) ==
  IF r.txt = "fulfilled" THEN UpdateHistory(h, r.q, r.norm) ELSE h

\* setImageError(null) with the image, setImageError(<message>) on a rejection.
FinalImageError(r) ==
  IF r.img = "fulfilled" THEN NULL ELSE ErrorMessage(r.imgReason, DefaultImageMsg)

\* Mutant: the join settles as soon as one of the two rejects (Promise.all).
AllSettled_FailFast(r) ==
  \/ r.txt = "rejected"
  \/ r.img = "rejected"
  \/ r.txt # "pending" /\ r.img # "pending"

\* Promise.allSettled([...]) fulfils once both promises have settled.
AllSettled(r) == r.txt # "pending" /\ r.img # "pending"

\* `reason.name.endsWith('Error')` throws a TypeError when the reason has no
\* name: in the image branch, or else in the text branch.
ImageBranchThrows(r) == r.img = "rejected" /\ r.imgReason.name = NoName
TextBranchThrows(r) ==
  ~ImageBranchThrows(r) /\ r.txt = "rejected" /\ r.txtReason.name = NoName

\* Mutant: no finally block; a search that ends in the catch block leaves the
\* in-flight flag and the loading flags as they are.
Finalize_NoFinally(s) ==
  LET r == searches[s]
      finalImageUrl == FinalImageUrl(variant, r, nextUrl)
      caught == ImageBranchThrows(r) \/ TextBranchThrows(r)
  IN
  /\ Responds(s)
  /\ AllSettled(r)
  /\ imageUrl' = IF r.img = "fulfilled" THEN finalImageUrl ELSE imageUrl
  /\ imageError' = IF ImageBranchThrows(r) THEN imageError ELSE FinalImageError(r)
  /\ revoked' = Revoke(variant, r, revoked)
  /\ nextUrl' = IF variant = "B" /\ r.img = "fulfilled" THEN nextUrl + 1 ELSE nextUrl
  /\ searchResult' = IF caught THEN searchResult ELSE FinalResult(variant, searchResult, r)
  /\ searchHistory' = IF caught THEN searchHistory ELSE FinalHistory(searchHistory, r)
  /\ error' = IF caught THEN EndsWithTypeErrorMsg ELSE FinalError(r)
  /\ cache' = IF caught THEN CacheDelete(cache, r.norm) ELSE FinalCache(cache, r, finalImageUrl)
  /\ isSearching' = (caught /\ isSearching)
  /\ isLoading' = (caught /\ isLoading)
  /\ isImageLoading' = (caught /\ isImageLoading)
  /\ searches' = [searches EXCEPT ![s] = Returned(r)]
  /\ lastOp' = Op("finish", <<>>, s, 0, r)
  /\ UNCHANGED <<svc, variant, hs>>

\* The continuation of `await Promise.allSettled([...])` with its catch and
\* finally blocks.  A TypeError thrown by a branch skips the rest of the try
\* block: the catch block publishes its message as the text error and deletes
\* the cache key.
Finalize(s) ==
  LET r == searches[s]
      finalImageUrl == FinalImageUrl(variant, r, nextUrl)
      caught == ImageBranchThrows(r) \/ TextBranchThrows(r)
  IN
  /\ Responds(s)
  /\ AllSettled(r)
  /\ imageUrl' = IF r.img = "fulfilled" THEN finalImageUrl ELSE imageUrl
  /\ imageError' = IF ImageBranchThrows(r) THEN imageError ELSE FinalImageError(r)
  /\ revoked' = Revoke(variant, r, revoked)
  /\ nextUrl' = IF variant = "B" /\ r.img = "fulfilled" THEN nextUrl + 1 ELSE nextUrl
  /\ searchResult' = IF caught THEN searchResult ELSE FinalResult(variant, searchResult, r)
  /\ searchHistory' = IF caught THEN searchHistory ELSE FinalHistory(searchHistory, r)
  /\ error' = IF caught THEN EndsWithTypeErrorMsg ELSE FinalError(r)
  /\ cache' = IF caught THEN CacheDelete(cache, r.norm) ELSE FinalCache(cache, r, finalImageUrl)
  \* finally
  /\ isSearching' = FALSE
  /\ isLoading' = FALSE
  /\ isImageLoading' = FALSE
  /\ searches' = [searches EXCEPT ![s] = Returned(r)]
  /\ lastOp' = Op("finish", <<>>, s, 0, r)
  /\ UNCHANGED <<svc, variant, hs>>

\* ------------------------------------------------------------------ render
\* A render that re-creates handleSearch: the new closure sees the committed
\* isSearching and isLoading (and imageUrl, which only variant B's reads).
Render ==
  /\ DepsChanged
  /\ hs' = [isSearching |-> isSearching, isLoading |-> isLoading,
            imageUrl |-> IF variant = "B" THEN imageUrl ELSE NoUrl]
  /\ UNCHANGED <<svc, variant, published, cache, searches, nextUrl, revoked, lastOp>>

\* ------------------------------------------------------------ specification
Next ==
  \/ \E q \in Queries : HandleSearchIgnored(q)
  \/ \E q \in Queries : HandleSearchBlank(q)
  \/ \E q \in Queries : HandleSearchHit(q)
  \/ \E q \in Queries : HandleSearchMiss(q)
  \/ \E s \in 1..MaxSearches, i \in 1..MaxChunks :
        \E chunk \in ChunkTexts(s, i) : TextChunk(s, i, chunk)
  \/ \E s \in 1..MaxSearches : TextFulfilled(s)
  \/ \E s \in 1..MaxSearches, reason \in TextReasons(variant) : TextRejected(s, reason)
  \/ \E s \in 1..MaxSearches : ImageFulfilled(s)
  \/ \E s \in 1..MaxSearches, reason \in ImageReasons(variant) : ImageRejected(s, reason)
  \/ \E s \in 1..MaxSearches : Finalize(s)
  \/ Render

Spec == Init /\ [][Next]_vars

\* handleSearch with generators that may reject with any value, called with a
\* blank query and another.
StubQueries == { <<" ">>, <<"b">> }

StubNext ==
  \/ \E q \in StubQueries : HandleSearchIgnored(q)
  \/ \E q \in StubQueries : HandleSearchBlank(q)
  \/ \E q \in StubQueries : HandleSearchHit(q)
  \/ \E q \in StubQueries : HandleSearchMiss(q)
  \/ \E s \in 1..MaxSearches, i \in 1..MaxChunks :
        \E chunk \in ChunkTexts(s, i) : TextChunk(s, i, chunk)
  \/ \E s \in 1..MaxSearches : TextFulfilled(s)
  \/ \E s \in 1..MaxSearches, reason \in AnyTextReasons : TextRejected(s, reason)
  \/ \E s \in 1..MaxSearches : ImageFulfilled(s)
  \/ \E s \in 1..MaxSearches, reason \in AnyImageReasons : ImageRejected(s, reason)
  \/ \E s \in 1..MaxSearches : Finalize(s)
  \/ Render

StubSpec == Init /\ [][StubNext]_vars

\* The same system with its scheduling: React renders again after a state
\* update it has not rendered yet, and the continuation of
\* `await Promise.allSettled(...)` runs once both promises have settled.
LiveSpec ==
  /\ Init /\ [][StubNext]_vars
  /\ WF_vars(Render)
  /\ \A s \in 1..MaxSearches : WF_vars(Finalize(s))

\* ------------------------------------------------------------- the service
\* The generators taken on their own, one call at a time, against a provider
\* whose answer is the input.  Three versions of the service are in the
\* repository:
\*   "gs"  src/services/geminiService.ts l.1-134 (both generators),
\*   "p0"  src/unnamed/part_000 l.183-295 (both generators),
\*   "p1"  src/unnamed/part_001 l.284-395 (generateProcessImage only).
\* Messages are sequences of words; a pattern is looked up word by word.
Generators == { <<"gs", "text">>, <<"gs", "image">>, <<"p0", "text">>, <<"p0", "image">>,
                <<"p1", "image">> }

\* toLowerCase / the i flag of a regular expression, on the words used here.
LowerWord(w) ==
  CASE w = "Network" -> "network" [] w = "Failed" -> "failed" [] w = "API" -> "api"
    [] w = "Bad" -> "bad" [] OTHER -> w

LowerWords(m) == [i \in 1..Len(m) |-> LowerWord(m[i])]

\* String.prototype.includes / RegExp.prototype.test for one alternative.
Includes(m, sub) ==
  \E i \in 1..(Len(m) - Len(sub) + 1) : SubSeq(m, i, i + Len(sub) - 1) = sub

\* A status code as the provider reports it: none, a number or a string.
NoStatus == [t |-> "none", n |-> 0, s |-> ""]
NumStatus(n) == [t |-> "num", n |-> n, s |-> ""]
StrStatus(s) == [t |-> "str", n |-> 0, s |-> s]

\* A thrown value: `nil` for null/undefined, `name` the class of an Error
\* ("" for a plain object), the message when it has one, the status.
Thrown(name, hasMessage, message, status) ==
  [nil |-> FALSE, name |-> name, hasMessage |-> hasMessage, message |-> message,
   status |-> status]

NilValue == [nil |-> TRUE, name |-> "", hasMessage |-> FALSE, message |-> <<>>,
             status |-> NoStatus]

\* What stands for "nothing was thrown".
NoFailure == [nil |-> FALSE, name |-> "none", hasMessage |-> FALSE, message |-> <<>>,
              status |-> NoStatus]

\* The classes of errors.ts, with the default message of each constructor.
ApiErrorClasses ==
  { "ApiError", "NetworkError", "InvalidQueryError", "ServiceUnavailableError",
    "NoApiKeyError" }

ApiError(message) == Thrown("ApiError", TRUE, message, NoStatus)
NewNetworkError(message) == Thrown("NetworkError", TRUE, message, NoStatus)
NewInvalidQueryError(message) == Thrown("InvalidQueryError", TRUE, message, NoStatus)
ServiceUnavailableError(message) == Thrown("ServiceUnavailableError", TRUE, message, NoStatus)
NoApiKeyError(message) == Thrown("NoApiKeyError", TRUE, message, NoStatus)

NetworkDefaultMsg == <<"Error", "de", "red.">>
UnavailableDefaultMsg == <<"El", "servicio", "no", "está", "disponible">>
NoApiKeyDefaultMsg == <<"La", "clave", "de", "API", "no", "está", "configurada.">>
InvalidQueryMsg == <<"La", "consulta", "es", "inválida">>
UnexpectedMsg == <<"Ocurrió", "un", "err", "inesperado">>
NoImageMsg == <<"No", "se", "recibió", "imagen", "desde", "el", "servicio", "AI.">>
NoImageDataMsg == <<"La", "generación", "de", "imagen", "no", "devolvió", "datos", "válidos.">>
UnknownErrorMsg == <<"Unknown", "err", "in", "image", "generation">>
TextFailedMsg == <<"No", "se", "pudo", "generar", "el", "texto">>
ImageFailedMsg == <<"No", "se", "pudo", "generar", "la", "imagen">>

\* What evaluating `error.message.toLowerCase()` throws on a value without a
\* message, and on null or undefined.
TypeError == Thrown("TypeError", TRUE, <<"Cannot", "read", "properties">>, NoStatus)

\* if (status): a non-zero number or a non-empty string
Truthy(status) ==
  \/ status.t = "num" /\ status.n # 0
  \/ status.t = "str" /\ status.s # ""

\* String(error) of a value that has no message
StringOf(err) == IF err.name = "" THEN <<"[object", "Object]">> ELSE <<err.name>>

\* handleApiError of geminiService.ts: what it throws for the value caught.
HandleApiErrorGs(err) ==
  IF ~err.nil /\ err.name \in ApiErrorClasses THEN err
  ELSE IF err.nil \/ ~err.hasMessage THEN TypeError
  ELSE IF \/ Includes(LowerWords(err.message), <<"network">>)
          \/ Includes(LowerWords(err.message), <<"failed", "to", "fetch">>)
    THEN NewNetworkError(NetworkDefaultMsg)
  ELSE IF Truthy(err.status)
          /\ (err.status = NumStatus(400) \/ err.status = StrStatus("INVALID_ARGUMENT"))
    THEN NewInvalidQueryError(InvalidQueryMsg)
  ELSE IF Truthy(err.status)
          /\ (\/ err.status.t = "num" /\ err.status.n >= 500
              \/ err.status = StrStatus("UNAVAILABLE"))
    THEN ServiceUnavailableError(UnavailableDefaultMsg)
  ELSE ApiError(UnexpectedMsg)

\* handleApiError of part_001: what it throws for the value caught.
HandleApiErrorP1(err) ==
  IF err.nil THEN ApiError(UnknownErrorMsg)
  ELSE LET msg == IF err.hasMessage /\ err.message # <<>>
                    THEN err.message ELSE StringOf(err)
           low == LowerWords(msg)
       IN
       IF Includes(low, <<"network">>) THEN NewNetworkError(msg)
       ELSE IF Includes(low, <<"invalid", "query">>) \/ Includes(low, <<"bad", "request">>)
         THEN NewInvalidQueryError(msg)
       ELSE IF Includes(low, <<"service", "unavailable">>) \/ Includes(low, <<"timeout">>)
         THEN ServiceUnavailableError(msg)
       ELSE IF \/ Includes(low, <<"api", "key">>) \/ Includes(low, <<"unauthorized">>)
               \/ Includes(low, <<"401">>)
         THEN NoApiKeyError(msg)
       ELSE ApiError(msg)

\* The catch block of a generator: what the call rejects with for the value
\* caught.  part_000's service throws one plain Error per generator.
Catch(ver, fn, err) ==
  CASE ver = "gs" -> HandleApiErrorGs(err)
    [] ver = "p1" -> HandleApiErrorP1(err)
    [] OTHER -> Thrown("Error", TRUE, IF fn = "text" THEN TextFailedMsg ELSE ImageFailedMsg,
                       NoStatus)

\* ---- what the provider may answer
MaxRefs == 2          \* citation references one chunk carries

Uris == { "A", "B", "C", "" }

\* A citation reference of the provider: web.uri and web.title, either may be empty.
Ref(uri, title) == [uri |-> uri, title |-> title]

RefsUpTo(n) == UNION { [1..k -> { Ref(u, "") : u \in Uris }] : k \in 0..n }

\* A chunk of the stream: its text (none, or one of two texts) and, when it
\* carries grounding metadata, its citation references.
ProviderChunks ==
  { [text |-> t, hasGrounding |-> g, grounding |-> r] :
      t \in { <<>>, <<"x">>, <<"y">> }, g \in BOOLEAN, r \in RefsUpTo(MaxRefs) }

WellFormedChunk(c) == c.hasGrounding \/ c.grounding = <<>>

\* Failure values of the provider: with or without a message, with or without
\* a status; and null.
ProviderMessages ==
  { <<"Network", "down">>, <<"Failed", "to", "fetch">>, <<"Bad", "request">>,
    <<"timeout">>, <<"quota">> }

ProviderStatuses ==
  { NoStatus, NumStatus(400), NumStatus(404), NumStatus(503), StrStatus("INVALID_ARGUMENT"),
    StrStatus("UNAVAILABLE") }

ProviderFailures ==
  { Thrown("Error", TRUE, m, st) : m \in ProviderMessages, st \in ProviderStatuses }
    \cup { Thrown("", FALSE, <<>>, st) : st \in ProviderStatuses }
    \cup { NilValue }

\* The answer of the image provider: no image, an image without bytes, bytes.
ImageResponses == { "zero", "nobytes", "bytes" }

\* A generator call that has not started: the version and generator, and
\* whether a credential is configured.  `chunks` are the chunks the stream has
\* delivered so far, `failure` what the provider failed with, `resp` the image
\* answer, `requests` the requests sent to the provider.
Call(g, hasKey) ==
  [ status |-> "called", ver |-> g[1], fn |-> g[2], hasKey |-> hasKey,
    chunks |-> <<>>, failure |-> NoFailure, resp |-> "none",
    requests |-> 0, sources |-> <<>>, calls |-> <<>>,
    thrown |-> NoFailure, bytes |-> 0 ]

\* part_000's service builds its client when the module loads and never looks
\* at the credential; it is run with one.
ServiceInit ==
  /\ AppInit
  /\ svc \in { Call(g, k) : g \in Generators, k \in BOOLEAN }
  /\ svc.ver = "p0" => svc.hasKey
  /\ variant = (IF svc.ver = "gs" THEN "A" ELSE "B")

Reject(c, err) == [c EXCEPT !.status = "rejected", !.thrown = err]

\* getGenAI: geminiService.ts calls it before its try block, part_001 inside;
\* then the request goes to the provider.
GetGenAI ==
  /\ svc.status = "called"
  /\ svc' = IF svc.ver = "gs" /\ ~svc.hasKey
              THEN Reject(svc, NoApiKeyError(NoApiKeyDefaultMsg))
            ELSE IF svc.ver = "p1" /\ ~svc.hasKey
              THEN Reject(svc, Catch("p1", svc.fn, NoApiKeyError(NoApiKeyDefaultMsg)))
            ELSE [svc EXCEPT !.status = "running", !.requests = @ + 1]
  /\ UNCHANGED <<variant, published, cache, hs, searches, nextUrl, revoked, lastOp>>

\* sources.push({ web: { uri, title: title || uri } }) for every reference with
\* a uri that is not in sources yet (part_000)
RECURSIVE PushSources(_, _)
PushSources(sources, refs) ==
  IF refs = <<>> THEN sources
  ELSE LET r == Head(refs) IN
       PushSources(
         IF r.uri # "" /\ ~\E i \in 1..Len(sources) : sources[i].uri = r.uri
           THEN Append(sources, Ref(r.uri, IF r.title # "" THEN r.title ELSE r.uri))
           ELSE sources,
         Tail(refs))

\* The sources after a chunk: geminiService.ts replaces them with the chunk's
\* references, part_000 adds the new ones.
ChunkSources(ver, sources, chunk) ==
  IF ~chunk.hasGrounding THEN sources
  ELSE IF ver = "gs" THEN chunk.grounding
  ELSE PushSources(sources, chunk.grounding)

\* The loop body of fetchConstructionProcess for the next chunk of the stream.
StreamChunk(chunk) ==
  /\ svc.status = "running" /\ svc.fn = "text"
  /\ Len(svc.chunks) < MaxChunks
  /\ svc' = [svc EXCEPT
               !.chunks = Append(@, chunk),
               !.calls = IF CallsOnStream(IF svc.ver = "gs" THEN "A" ELSE "B", chunk.text)
                           THEN Append(@, chunk.text) ELSE @,
               !.sources = ChunkSources(svc.ver, @, chunk)]
  /\ UNCHANGED <<variant, published, cache, hs, searches, nextUrl, revoked, lastOp>>

\* The stream ends: return { sources }.
StreamEnds ==
  /\ svc.status = "running" /\ svc.fn = "text"
  /\ svc' = [svc EXCEPT !.status = "fulfilled"]
  /\ UNCHANGED <<variant, published, cache, hs, searches, nextUrl, revoked, lastOp>>

\* The request or the stream fails: the catch block rejects.
StreamFails(failure) ==
  /\ svc.status = "running" /\ svc.fn = "text"
  /\ svc' = [Reject(svc, Catch(svc.ver, "text", failure)) EXCEPT !.failure = failure]
  /\ UNCHANGED <<variant, published, cache, hs, searches, nextUrl, revoked, lastOp>>

\* What generateProcessImage throws inside its try block when the answer
\* holds no image or no bytes.
MissingContent(ver, resp) ==
  CASE ver = "gs" -> ApiError(NoImageDataMsg)
    [] ver = "p1" -> ApiError(IF resp = "zero" THEN NoImageMsg ELSE NoImageDataMsg)
    [] OTHER -> Thrown("Error", TRUE, <<"No", "se", "recibió", "imagen", "del", "modelo">>,
                       NoStatus)

\* generateProcessImage after the provider answered.
ImageResponds(resp) ==
  /\ svc.status = "running" /\ svc.fn = "image"
  /\ svc' = IF resp # "bytes"
              THEN [Reject(svc, Catch(svc.ver, "image", MissingContent(svc.ver, resp)))
                      EXCEPT !.resp = resp]
              ELSE [svc EXCEPT !.status = "fulfilled", !.resp = resp, !.bytes = 1]
  /\ UNCHANGED <<variant, published, cache, hs, searches, nextUrl, revoked, lastOp>>

\* generateProcessImage when the provider request fails.
ImageFails(failure) ==
  /\ svc.status = "running" /\ svc.fn = "image"
  /\ svc' = [Reject(svc, Catch(svc.ver, "image", failure)) EXCEPT !.failure = failure]
  /\ UNCHANGED <<variant, published, cache, hs, searches, nextUrl, revoked, lastOp>>

ServiceNext ==
  \/ GetGenAI
  \/ \E chunk \in { c \in ProviderChunks : WellFormedChunk(c) } : StreamChunk(chunk)
  \/ StreamEnds
  \/ \E failure \in ProviderFailures : StreamFails(failure)
  \/ \E resp \in ImageResponses : ImageResponds(resp)
  \/ \E failure \in ProviderFailures : ImageFails(failure)

ServiceSpec == ServiceInit /\ [][ServiceNext]_vars


\* ------------------------------------------------------------------ claims
\* An event of handleSearch has just happened in the step.
Stepped == lastOp' # lastOp

\* Two strings are equal ignoring case.
EqIgnoreCase(x, y) == ToLowerCase(x) = ToLowerCase(y)

\* Two strings are the same query: equal once trimmed and lowercased.
SameQuery(x, y) == ToLowerCase(Trim(x)) = ToLowerCase(Trim(y))

\* The concatenation of a sequence of chunks.
RECURSIVE Concat(_)
Concat(chunks) == IF chunks = <<>> THEN <<>> ELSE Head(chunks) \o Concat(Tail(chunks))

InFlight == { s \in 1..Len(searches) : ~searches[s].done }

\* C1: a search that ends with both generators fulfilled creates exactly one
\* cache entry, under trim+lowercase of its query, holding its full text, its
\* sources and its image reference; every accepted call whose normalized query
\* has an entry, whatever its casing or surrounding whitespace, starts no
\* generator and publishes exactly the stored text, sources and image.
C1_Step ==
  /\ (Stepped /\ lastOp'.kind = "finish"
        /\ lastOp'.r.txt = "fulfilled" /\ lastOp'.r.img = "fulfilled")
     => LET key == ToLowerCase(Trim(lastOp'.r.q)) IN
        /\ DOMAIN cache' = DOMAIN cache \cup {key}
        /\ \A k \in DOMAIN cache \ {key} : cache'[k] = cache[k]
        /\ cache'[key].result = [text |-> lastOp'.r.fullText, sources |-> lastOp'.r.sources]
        /\ cache'[key].imageUrl = imageUrl'
        /\ cache'[key].imageUrl # NoUrl
  /\ (Stepped /\ lastOp'.kind = "miss")
     => ~(ToLowerCase(Trim(searches'[lastOp'.sid].q)) \in DOMAIN cache)
  /\ (Stepped /\ lastOp'.kind = "hit")
     => LET key == ToLowerCase(Trim(lastOp'.q)) IN
        /\ key \in DOMAIN cache
        /\ searches' = searches
        /\ cache' = cache
        /\ searchResult' = << cache[key].result >>
        /\ imageUrl' = cache[key].imageUrl

C1_CacheHitReproducesEntry == [][C1_Step]_vars

\* A call spelled differently from the search that filled the cache was served
\* from its entry.
C1_Witness ==
  /\ lastOp.kind = "hit"
  /\ \E s \in 1..Len(searches) :
       /\ searches[s].done /\ searches[s].txt = "fulfilled" /\ searches[s].img = "fulfilled"
       /\ searches[s].norm = Normalize(lastOp.q)
       /\ searches[s].q # lastOp.q
  /\ searchResult # NoResult
  /\ searchResult[1].text # <<>>

\* C2: the cache holds a key only if a completed search with that normalized
\* query had both generators succeed; after a search whose text succeeded and
\* whose image failed there is no entry for its query, and no call is served
\* from an entry that does not exist (the identical call runs both generators).
C2_CacheOnlyFullSuccess ==
  /\ \A k \in DOMAIN cache :
       \E s \in 1..Len(searches) :
         /\ searches[s].done /\ searches[s].norm = k
         /\ searches[s].txt = "fulfilled" /\ searches[s].img = "fulfilled"
  /\ (lastOp.kind = "finish" /\ lastOp.r.txt = "fulfilled" /\ lastOp.r.img = "rejected")
     => ~(lastOp.r.norm \in DOMAIN cache)
  /\ lastOp.kind = "hit" => Normalize(lastOp.q) \in DOMAIN cache

\* The identical query is searched again, with both generators, after a search
\* whose image failed.
C2_Witness ==
  /\ lastOp.kind = "miss" /\ lastOp.sid = 2
  /\ searches[1].done /\ searches[1].txt = "fulfilled" /\ searches[1].img = "rejected"
  /\ searches[2].q = searches[1].q
  /\ searches[2].txt = "pending" /\ searches[2].img = "pending"
  /\ cache = EmptyCache

\* C3: while a cache-miss search is in flight every further handleSearch call
\* is ignored (it starts no generator and changes neither the published state
\* nor the cache nor the history), and at most one pair of generator calls is
\* outstanding.
C3_Step ==
  /\ (Stepped /\ InFlight # {} /\ lastOp'.kind \in {"ignored", "blank", "hit", "miss"})
     => UNCHANGED <<published, cache, searches>>
  /\ Cardinality({ s \in 1..Len(searches') : ~searches'[s].done }) <= 1

C3_CallsIgnoredWhileInFlight == [][C3_Step]_vars

\* C4: the history never holds two entries that are equal ignoring case.
C4_NoCaseInsensitiveDuplicates ==
  \A i, j \in 1..Len(searchHistory) :
    i # j => ~EqIgnoreCase(searchHistory[i], searchHistory[j])

\* C5: the history holds at most 3 entries.
C5_HistoryAtMostThree == Len(searchHistory) <= 3

\* The history is full and has just been updated again.
C5_Witness ==
  /\ Len(searchHistory) = 3
  /\ lastOp.kind = "hit"
  /\ searchHistory[1] = lastOp.q
  /\ searchHistory[2] = lastOp.q

\* C6: after a cache hit or a search whose text succeeded, the query as
\* submitted is the first history entry; if the query was already in the
\* history the list does not grow and the other entries keep their order,
\* otherwise the previous entries shift back by one and the oldest is dropped
\* beyond 3.
C6_Step ==
  LET q == IF lastOp'.kind = "hit" THEN lastOp'.q ELSE lastOp'.r.q IN
  (Stepped /\ (lastOp'.kind = "hit"
               \/ (lastOp'.kind = "finish" /\ lastOp'.r.txt = "fulfilled")))
  => /\ searchHistory' # <<>>
     /\ searchHistory'[1] = q
     /\ IF \E i \in 1..Len(searchHistory) : SameQuery(searchHistory[i], q)
          THEN /\ Len(searchHistory') <= Len(searchHistory)
               /\ Tail(searchHistory')
                    = SelectSeq(searchHistory, LAMBDA e : ~SameQuery(e, q))
          ELSE searchHistory' = Slice0(<<q>> \o searchHistory, 3)

C6_HistoryMostRecentFirst == [][C6_Step]_vars

\* C7: when the text generator rejects, after zero or more chunks, then once
\* handleSearch has finished the published result is null, a text error message
\* is published, and the cache has no entry for the normalized query.
C7_TextFailureClearsResult ==
  (lastOp.kind = "finish" /\ lastOp.r.txt = "rejected")
  => /\ searchResult = NoResult
     /\ error # NULL
     /\ ~(ToLowerCase(Trim(lastOp.r.q)) \in DOMAIN cache)

\* A search whose text was rejected after a chunk had been published finished.
C7_Witness ==
  /\ lastOp.kind = "finish" /\ lastOp.r.txt = "rejected"
  /\ lastOp.r.fullText # <<>>
  /\ error = InvalidQueryError.message

\* C8: when the image generator rejects and the text generator succeeds, then
\* once handleSearch has finished an image error message is published, the
\* published text is the full streamed text with the final sources, the text
\* error is null, the query has no cache entry and is the first history entry.
C8_ImageFailureKeepsText ==
  (lastOp.kind = "finish" /\ lastOp.r.txt = "fulfilled" /\ lastOp.r.img = "rejected")
  => /\ imageError # NULL
     /\ searchResult = << [text |-> Concat(lastOp.r.streamed), sources |-> lastOp.r.sources] >>
     /\ error = NULL
     /\ ~(ToLowerCase(Trim(lastOp.r.q)) \in DOMAIN cache)
     /\ searchHistory # <<>> /\ searchHistory[1] = lastOp.r.q

\* C9: during a cache-miss search the text-loading flag is cleared when the
\* first text chunk is delivered, before the search finalizes.
C9_LoadingClearedAtFirstChunk ==
  (lastOp.kind = "chunk" /\ searches[lastOp.sid].fullText # <<>>) => ~isLoading

\* C10: within one cache-miss search the published text is append-only: after
\* the k-th onTextStream call it is the concatenation of the first k chunks,
\* and when the text generation succeeds the final published text is the
\* concatenation of all the chunks delivered.
C10_PublishedTextIsConcatenation ==
  /\ lastOp.kind = "chunk"
     => /\ searchResult # NoResult
        /\ searchResult[1].text
             = Concat(SubSeq(searches[lastOp.sid].streamed, 1, lastOp.k))
  /\ (lastOp.kind = "finish" /\ lastOp.r.txt = "fulfilled")
     => /\ searchResult # NoResult
        /\ searchResult[1].text = Concat(lastOp.r.streamed)

\* ---- the generators on their own (ServiceSpec)
\* The uris of a list of citation references.
UrisOf(refs) == [i \in 1..Len(refs) |-> refs[i].uri]

\* All the citation references the chunks of a stream carry, in stream order.
RECURSIVE AllRefs(_)
AllRefs(chunks) ==
  IF chunks = <<>> THEN <<>> ELSE Head(chunks).grounding \o AllRefs(Tail(chunks))

\* A list without its empty elements and without repetitions, in first-seen order.
RECURSIVE FirstSeen(_, _)
FirstSeen(seen, rest) ==
  IF rest = <<>> THEN seen
  ELSE IF Head(rest) = "" \/ \E i \in 1..Len(seen) : seen[i] = Head(rest)
    THEN FirstSeen(seen, Tail(rest))
    ELSE FirstSeen(Append(seen, Head(rest)), Tail(rest))

\* C11: fetchConstructionProcess resolves with the citation sources of all the
\* chunks of the stream, without the entries that have an empty uri and without
\* two entries of the same uri, in first-seen order.
C11_SourcesDeduplicated ==
  (svc.status = "fulfilled" /\ svc.fn = "text")
  => UrisOf(svc.sources) = FirstSeen(<<>>, UrisOf(AllRefs(svc.chunks)))

\* C12: the two generator calls of a cache-miss search are joined fail-soft:
\* both are started, the rejection of one leaves the other running, every
\* search that returns has both generators settled, and the cache is written
\* or evicted only by the finalization of a search whose generators have both
\* settled.
C12_Step ==
  /\ (Stepped /\ lastOp'.kind = "miss")
     => /\ searches'[lastOp'.sid].txt = "pending"
        /\ searches'[lastOp'.sid].img = "pending"
  /\ \A s \in 1..Len(searches) :
       /\ (searches[s].img = "pending" /\ searches'[s].img = "rejected")
          => (searches'[s].txt = searches[s].txt /\ ~searches'[s].done)
       /\ (searches[s].txt = "pending" /\ searches'[s].txt = "rejected")
          => (searches'[s].img = searches[s].img /\ ~searches'[s].done)
       /\ (~searches[s].done /\ searches'[s].done)
          => /\ searches[s].txt \in {"fulfilled", "rejected"}
             /\ searches[s].img \in {"fulfilled", "rejected"}
             /\ searches'[s].txt = searches[s].txt
             /\ searches'[s].img = searches[s].img
  /\ cache' # cache
     => /\ Stepped /\ lastOp'.kind = "finish"
        /\ lastOp'.r.txt \in {"fulfilled", "rejected"}
        /\ lastOp'.r.img \in {"fulfilled", "rejected"}

C12_FailSoftJoin == [][C12_Step]_vars

\* A search finished whose text was rejected after a chunk and whose image
\* generation still ran to its end.
C12_Witness ==
  /\ lastOp.kind = "finish"
  /\ lastOp.r.txt = "rejected" /\ lastOp.r.img = "fulfilled"
  /\ lastOp.r.streamed # <<>>
  /\ imageUrl # NoUrl

\* C13: whichever of the two operations settles first publishes its outcome
\* first: once the image generator has settled while the text stream has not
\* ended, the image reference or the image error is published and image
\* loading is cleared.
C13_FirstSettledPublishesFirst ==
  \A s \in InFlight :
    (searches[s].img # "pending" /\ searches[s].txt = "pending")
    => /\ ~isImageLoading
       /\ searches[s].img = "fulfilled" => imageUrl # NoUrl
       /\ searches[s].img = "rejected" => imageError # NULL

\* C14: every object URL the orchestrator created is released when it stops
\* being the published image, and not before: the handles released are exactly
\* the created ones that are no longer published.
C14_HandlesReleasedWhenSuperseded ==
  variant = "B"
  => \A u \in 1..(nextUrl - 1) : (u \in revoked) <=> (u # imageUrl)

Kind(err) ==
  CASE err.name = "NoApiKeyError" -> "NoCredential"
    [] err.name = "NetworkError" -> "Network"
    [] err.name = "InvalidQueryError" -> "InvalidQuery"
    [] err.name = "ServiceUnavailableError" -> "ServiceUnavailable"
    [] err.name = "ApiError" /\ err.message \in { NoImageMsg, NoImageDataMsg } -> "ContentMissing"
    [] err.name \in { "ApiError", "Error" } -> "Unknown"
    [] OTHER -> "unclassified"

Taxonomy ==
  { "NoCredential", "Network", "InvalidQuery", "ServiceUnavailable", "ContentMissing",
    "Unknown" }

\* C16: whenever a generator fails, for any failure value of the provider, it
\* rejects with an error of a kind of the closed taxonomy, and it has sent the
\* provider at most one request.
C16_FailuresClassified ==
  /\ svc.status = "rejected" => Kind(svc.thrown) \in Taxonomy
  /\ svc.status # "idle" => svc.requests <= 1

\* A failure of the provider that matches no pattern of handleApiError, and a
\* transport failure.
UnclassifiedFailure == Thrown("Error", TRUE, <<"quota">>, NumStatus(404))
TransportFailure == Thrown("Error", TRUE, <<"Network", "down">>, NoStatus)

\* C17: when the image provider answers with no image or with an image without
\* bytes, generateProcessImage rejects with an error whose kind is not the kind
\* a transport failure, a missing credential or an unclassified failure is
\* rejected with.
C17_ContentMissingDistinguishable ==
  (svc.status # "idle" /\ svc.fn = "image" /\ svc.resp \in { "zero", "nobytes" })
  => /\ svc.status = "rejected"
     /\ svc.thrown.name # Catch(svc.ver, "image", UnclassifiedFailure).name
     /\ svc.thrown.name # Catch(svc.ver, "image", TransportFailure).name
     /\ svc.thrown.name # "NoApiKeyError"

\* C18: when no credential is configured the generator rejects with a
\* NoApiKeyError, and sends the provider nothing.
C18_NoCredentialUnchanged ==
  (svc.status \notin { "idle", "called" } /\ ~svc.hasKey)
  => /\ svc.status = "rejected"
     /\ svc.thrown.name = "NoApiKeyError"
     /\ svc.requests = 0

\* The texts of the chunks that have one, in stream order.
RECURSIVE NonEmptyTexts(_)
NonEmptyTexts(chunks) ==
  IF chunks = <<>> THEN <<>>
  ELSE (IF Head(chunks).text # <<>> THEN <<Head(chunks).text>> ELSE <<>>)
         \o NonEmptyTexts(Tail(chunks))

\* C19: fetchConstructionProcess has called the chunk callback once for every
\* chunk with a non-empty text, in stream order, and for no other chunk; and it
\* does not call it after it has rejected.
C19_CallbackPerNonEmptyChunk ==
  /\ [](svc.status # "idle" => svc.calls = NonEmptyTexts(svc.chunks))
  /\ [][svc.status = "rejected" => svc'.calls = svc.calls]_vars

\* C20: handleSearch with an empty or whitespace-only query is a no-op: it
\* starts no generator and leaves the published state, the cache, the history
\* and the image handles as they are; only a query that is not blank is served
\* from the cache or searched.
C20_Step ==
  /\ (Stepped /\ lastOp'.kind = "blank")
     => UNCHANGED <<published, cache, searches, nextUrl, revoked>>
  /\ (Stepped /\ lastOp'.kind = "hit") => Trim(lastOp'.q) # <<>>
  /\ (Stepped /\ lastOp'.kind = "miss") => Trim(searches'[lastOp'.sid].q) # <<>>

C20_BlankQueryIsNoOp == [][C20_Step]_vars

\* A blank query was submitted while a text error was published.
C20_Witness ==
  /\ lastOp.kind = "blank"
  /\ error # NULL
  /\ searchHistory # <<>>

\* C21: a cache hit leaves the orchestrator idle and clean: after it the text
\* error and the image error are null, text loading, image loading and the
\* in-flight flag are false, and the cache is unchanged.
C21_Step ==
  (Stepped /\ lastOp'.kind = "hit")
  => /\ error' = NULL /\ imageError' = NULL
     /\ ~isLoading' /\ ~isImageLoading' /\ ~isSearching'
     /\ cache' = cache

C21_CacheHitLeavesIdle == [][C21_Step]_vars

\* C22: a cache miss clears the published result, image reference, text error
\* and image error and sets both loading flags before either generator has
\* delivered anything; and while a search is in flight the published text is
\* made of the chunks of that search alone.
C22_Step ==
  (Stepped /\ lastOp'.kind = "miss")
  => /\ searchResult' = NoResult /\ imageUrl' = NoUrl
     /\ error' = NULL /\ imageError' = NULL
     /\ isLoading' /\ isImageLoading'
     /\ searches'[lastOp'.sid].streamed = <<>>

C22_MissClearsPriorState ==
  /\ []((InFlight # {} /\ searchResult # NoResult)
          => \E s \in InFlight : searchResult[1].text = Concat(searches[s].streamed))
  /\ [][C22_Step]_vars

\* C23: no cache entry holds an object URL that has been released, and the
\* image a cache hit publishes is a live handle.
C23_CachedHandlesAreLive ==
  variant = "B"
  => /\ \A k \in DOMAIN cache : cache[k].imageUrl \notin revoked
     /\ lastOp.kind = "hit" => imageUrl \notin revoked

\* C24: every cache-miss search whose text call and image call have both
\* settled eventually finishes, and it finishes with the in-flight flag, text
\* loading and image loading all false, whatever the outcomes, an exception
\* during finalization included; after it the rendered handleSearch sees the
\* in-flight flag false and accepts a call again.
C24_Step ==
  (Stepped /\ lastOp'.kind = "finish")
  => ~isSearching' /\ ~isLoading' /\ ~isImageLoading'

C24_SettledSearchFinishes ==
  /\ \A s \in 1..MaxSearches :
        (Running(s) /\ AllSettled(searches[s]))
          ~> (s \in 1..Len(searches) /\ searches[s].done /\ ~hs.isSearching)
  /\ [][C24_Step]_vars

\* A search ended in the catch block, and the flags are false.
C24_Witness ==
  /\ lastOp.kind = "finish"
  /\ ImageBranchThrows(lastOp.r) \/ TextBranchThrows(lastOp.r)
  /\ ~isSearching /\ ~isLoading /\ ~isImageLoading
  /\ ~hs.isSearching

\* C25: an entry of the cache is never removed or overwritten: the cache only
\* grows.
C25_Step == \A k \in DOMAIN cache : k \in DOMAIN cache' /\ cache'[k] = cache[k]

C25_CacheOnlyGrows == [][C25_Step]_vars

\* C26: when a search ends with both generators fulfilled, the result and the
\* image reference written to the cache are the result and the image reference
\* published at the end of that search.
C26_CacheEqualsPublished ==
  (lastOp.kind = "finish" /\ lastOp.r.txt = "fulfilled" /\ lastOp.r.img = "fulfilled")
  => /\ lastOp.r.norm \in DOMAIN cache
     /\ searchResult = << cache[lastOp.r.norm].result >>
     /\ imageUrl = cache[lastOp.r.norm].imageUrl

\* C27: the history changes only on a cache hit or at the end of a search
\* whose text generation succeeded: the end of a search whose text was
\* rejected, whatever its image outcome, and an ignored or blank call leave it
\* as it was.
C27_Step ==
  /\ searchHistory' # searchHistory
     => \/ lastOp'.kind = "hit"
        \/ lastOp'.kind = "finish" /\ lastOp'.r.txt = "fulfilled"
  /\ (lastOp'.kind = "finish" /\ lastOp'.r.txt = "rejected")
     => searchHistory' = searchHistory
  /\ lastOp'.kind \in {"ignored", "blank"} => searchHistory' = searchHistory

C27_HistoryFrame == [][C27_Step]_vars

\* A search whose text was rejected and whose image was fulfilled finished,
\* with entries in the history.
C27_Witness ==
  /\ lastOp.kind = "finish"
  /\ lastOp.r.txt = "rejected" /\ lastOp.r.img = "fulfilled"
  /\ searchHistory # <<>>
  /\ error # NULL

\* The precedence of handleApiError as stated: an ApiError as it is, then the
\* message, then the status, then the generic ApiError.
ClassifiedAs(err) ==
  IF err.name \in ApiErrorClasses THEN err.name
  ELSE IF /\ err.hasMessage
          /\ \/ Includes(LowerWords(err.message), <<"network">>)
             \/ Includes(LowerWords(err.message), <<"failed", "to", "fetch">>)
    THEN "NetworkError"
  ELSE IF err.status = NumStatus(400) \/ err.status = StrStatus("INVALID_ARGUMENT")
    THEN "InvalidQueryError"
  ELSE IF (err.status.t = "num" /\ err.status.n >= 500) \/ err.status = StrStatus("UNAVAILABLE")
    THEN "ServiceUnavailableError"
  ELSE "ApiError"

\* C28: handleApiError of services/geminiService.ts throws, for the value its
\* generator caught: that value when it is an ApiError; otherwise NetworkError
\* for a message with 'network' or 'failed to fetch' in any casing, whatever
\* the status; otherwise InvalidQueryError for status 400 or INVALID_ARGUMENT;
\* otherwise ServiceUnavailableError for a numeric status of 500 or more or
\* UNAVAILABLE; otherwise the generic ApiError.
C28_HandleApiErrorPrecedence ==
  (svc.status = "rejected" /\ svc.ver = "gs" /\ svc.hasKey)
  => LET caught == IF svc.failure # NoFailure THEN svc.failure
                   ELSE MissingContent("gs", svc.resp)
     IN /\ svc.thrown.name = ClassifiedAs(caught)
        /\ caught.name \in ApiErrorClasses => svc.thrown = caught

====
